---- MODULE Spec2Model ----
(***************************************************************************)
(* A model of the 2D point geometry library of src/native: geometry.h and  *)
(* main_geometry.c.  The four library functions createPoint, displayPoint, *)
(* distanceToOrigin and addPoints are modelled by operators of the same    *)
(* names over a scaled-down model of IEEE-754 double arithmetic; the       *)
(* actions below call them the way the C callers do.                       *)
(***************************************************************************)
EXTENDS Integers, Sequences, FiniteSets, TLC

VARIABLES
    call,   \* the latest completed library call of the sequential caller
    out,    \* the text written to stdout so far
    th,     \* the concurrent callers: th[t] is thread t's activation
    main    \* the activation of main(): its pc and its four locals

vars == <<call, out, th, main>>

(***************************************************************************)
(* double (geometry.h:12-13).  A double is NaN, +-infinity or a finite     *)
(* signed magnitude.  The finite values are scaled down: a magnitude m     *)
(* stands for m / One, the largest finite magnitude is MaxMag (as DBL_MAX) *)
(* and a result is rounded to the nearest representable value, ties to     *)
(* even, as the default IEEE-754 rounding mode does.  A larger exact       *)
(* result overflows to infinity, a smaller one underflows to zero.  Zero   *)
(* is signed.                                                              *)
(***************************************************************************)
One == 2^8
MaxMag == 128 * One

NaN == [k |-> "nan", neg |-> FALSE, m |-> 0]
Inf(neg) == [k |-> "inf", neg |-> neg, m |-> 0]
Fin(neg, m) == [k |-> "fin", neg |-> neg, m |-> m]

IsNaN(a) == a.k = "nan"
IsInf(a) == a.k = "inf"
IsFin(a) == a.k = "fin"
IsZero(a) == a.k = "fin" /\ a.m = 0

Abs(n) == IF n < 0 THEN -n ELSE n

\* The finite double of a signed count n of units 1/One (0 is +0.0).
Num(n) == Fin(n < 0, Abs(n))

\* The signed count of units of a finite double.
sv(a) == IF a.neg THEN -a.m ELSE a.m

\* An exact non-zero result of magnitude m units, as a double.
Overflow(neg, m) == IF m > MaxMag THEN Inf(neg) ELSE Fin(neg, m)

\* n / d rounded to the nearest integer, ties to even (n >= 0, d > 0).
DivRoundEven(n, d) ==
    LET q == n \div d
        r == n % d
    IN  IF 2 * r > d \/ (2 * r = d /\ q % 2 = 1) THEN q + 1 ELSE q

fneg(a) == IF IsNaN(a) THEN NaN ELSE [a EXCEPT !.neg = ~a.neg]

\* a + b
fadd(a, b) ==
    IF IsNaN(a) \/ IsNaN(b) THEN NaN
    ELSE IF IsInf(a) THEN (IF IsInf(b) /\ a.neg # b.neg THEN NaN ELSE a)
    ELSE IF IsInf(b) THEN b
    ELSE LET s == sv(a) + sv(b)
         IN  IF s = 0 THEN Fin(a.neg /\ b.neg, 0) ELSE Overflow(s < 0, Abs(s))

\* a - b
fsub(a, b) == fadd(a, fneg(b))

\* a * b
fmul(a, b) ==
    IF IsNaN(a) \/ IsNaN(b) THEN NaN
    ELSE IF (IsInf(a) /\ IsZero(b)) \/ (IsZero(a) /\ IsInf(b)) THEN NaN
    ELSE IF IsInf(a) \/ IsInf(b) THEN Inf(a.neg # b.neg)
    ELSE Overflow(a.neg # b.neg, DivRoundEven(a.m * b.m, One))

\* a == b, the C comparison: a NaN equals nothing, -0.0 equals +0.0.
feq(a, b) ==
    /\ ~IsNaN(a)
    /\ ~IsNaN(b)
    /\ a.k = b.k
    /\ a.m = b.m
    /\ (a.neg = b.neg \/ IsZero(a))

\* a < 0
fneg0(a) == ~IsNaN(a) /\ a.neg /\ ~IsZero(a)

\* The integer square root: the r in lo..hi-1 with r*r <= n < (r+1)*(r+1).
\* (The midpoint is bound by a set constructor, so that it is computed once.)
RECURSIVE ISqrt(_, _, _)
ISqrt(n, lo, hi) ==
    IF hi - lo <= 1 THEN lo
    ELSE CHOOSE r \in { IF mid * mid <= n THEN ISqrt(n, mid, hi) ELSE ISqrt(n, lo, mid) :
                        mid \in {(lo + hi) \div 2} } : TRUE

\* sqrt(n0) rounded to the nearest integer (never a tie).
SqrtNearest(n0) ==
    CHOOSE v \in { IF nr[1] - nr[2] * nr[2] > nr[2] THEN nr[2] + 1 ELSE nr[2] :
                   nr \in { <<n, ISqrt(n, 0, 2^12)>> : n \in {n0} } } : TRUE

\* sqrt(a) of <math.h> (geometry.h:4): correctly rounded; the square root of
\* a negative number is a domain error and yields NaN; sqrt(-0.0) is -0.0.
\* (The argument is bound by a set constructor, so that it is computed once.)
sqrtDomainError(a) == fneg0(a)

fsqrt(a0) ==
    CHOOSE v \in { IF IsNaN(a) \/ sqrtDomainError(a) THEN NaN
                   ELSE IF IsInf(a) \/ IsZero(a) THEN a
                   ELSE Fin(FALSE, SqrtNearest(a.m * One)) : a \in {a0} } : TRUE

\* The conversion of an int constant to double (ORIGIN_X, ORIGIN_Y are ints).
IntToDouble(i) == Num(i * One)

(***************************************************************************)
(* printf's "%.2f" (main_geometry.c:14): the exact value rounded to two    *)
(* decimals, ties to even, with a "-" for a set sign bit (also of a zero). *)
(* An infinity is written inf; a NaN is written nan or -nan by its sign    *)
(* bit, which this model does not keep: nanText is the caller's choice.    *)
(***************************************************************************)
Digit(d) == <<"0", "1", "2", "3", "4", "5", "6", "7", "8", "9">>[d + 1]

RECURSIVE Dec(_)
Dec(n) == IF n < 10 THEN Digit(n) ELSE Dec(n \div 10) \o Digit(n % 10)

NanTexts == {"nan", "-nan"}

fmt2(a, nanText) ==
    IF IsNaN(a) THEN nanText
    ELSE IF IsInf(a) THEN (IF a.neg THEN "-inf" ELSE "inf")
    ELSE LET h == DivRoundEven(a.m * 100, One)
         IN  (IF a.neg THEN "-" ELSE "") \o Dec(h \div 100) \o "."
                 \o Digit((h % 100) \div 10) \o Digit(h % 10)

(***************************************************************************)
(* geometry.h and the four functions of main_geometry.c.                   *)
(***************************************************************************)
ORIGIN_X == 0
ORIGIN_Y == 0

\* typedef struct { double x; double y; } Point;
Point(x, y) == [x |-> x, y |-> y]

\* createPoint with a slip: newPoint.x = y for newPoint.y = y, so that y
\* stays indeterminate.
createPointSlip(x, y, g) ==
    LET newPoint1 == [g EXCEPT !.x = x]
        newPoint2 == [newPoint1 EXCEPT !.x = y]
    IN  newPoint2

\* createPoint: newPoint starts indeterminate (g) and both fields are assigned.
createPoint(x, y, g) ==
    LET newPoint1 == [g EXCEPT !.x = x]
        newPoint2 == [newPoint1 EXCEPT !.y = y]
    IN  newPoint2

\* displayPoint with a slip: the two arguments of printf swapped.
displayPointSwapped(p, nanX, nanY) ==
    "Point(x: " \o fmt2(p.y, nanY) \o ", y: " \o fmt2(p.x, nanX) \o ")\n"

\* displayPoint: the text its one printf writes.
displayPoint(p, nanX, nanY) ==
    "Point(x: " \o fmt2(p.x, nanX) \o ", y: " \o fmt2(p.y, nanY) \o ")\n"

\* distanceToOrigin: its two locals, and the argument it hands to sqrt.
deltas(p) ==
    [deltaX |-> fsub(p.x, IntToDouble(ORIGIN_X)),
     deltaY |-> fsub(p.y, IntToDouble(ORIGIN_Y))]

sumOfSquares(d) == fadd(fmul(d.deltaX, d.deltaX), fmul(d.deltaY, d.deltaY))

\* radicand with a slip: a minus for the plus under the square root.
radicandMinus(p) ==
    LET d == deltas(p)
    IN  fsub(fmul(d.deltaX, d.deltaX), fmul(d.deltaY, d.deltaY))

radicand(p) == sumOfSquares(deltas(p))

\* distanceToOrigin with a slip: the square root forgotten.
distanceSquared(p) == radicand(p)

distanceToOrigin(p) == fsqrt(radicand(p))

\* addPoints with a slip: result.y = p1.x + p2.y, x mixed into y.
addPointsMixed(p1, p2, g) ==
    LET result1 == [g EXCEPT !.x = fadd(p1.x, p2.x)]
        result2 == [result1 EXCEPT !.y = fadd(p1.x, p2.y)]
    IN  result2

\* addPoints with a slip: result.x = p1.x - p2.x, a minus for the plus.
addPointsMinus(p1, p2, g) ==
    LET result1 == [g EXCEPT !.x = fsub(p1.x, p2.x)]
        result2 == [result1 EXCEPT !.y = fadd(p1.y, p2.y)]
    IN  result2

\* addPoints: result starts indeterminate (g) and both fields are assigned.
addPoints(p1, p2, g) ==
    LET result1 == [g EXCEPT !.x = fadd(p1.x, p2.x)]
        result2 == [result1 EXCEPT !.y = fadd(p1.y, p2.y)]
    IN  result2

(***************************************************************************)
(* The values the model draws.  Coords holds every class of double: NaN,   *)
(* both infinities, both zeros, the demonstration's coordinates, the       *)
(* smallest positive value (its square underflows) and the largest finite  *)
(* one (its square and its double overflow).                               *)
(***************************************************************************)
Half == One \div 2
Coords ==
    { NaN, Inf(FALSE), Inf(TRUE), Fin(FALSE, 0), Fin(TRUE, 0),
      Num(-One), Num(2 * One + Half), Num(3 * One), Num(4 * One),
      Fin(FALSE, 1), Fin(FALSE, MaxMag) }

Points == [x : Coords, y : Coords]

\* What an automatic variable without initialiser may hold.
GarbageDoubles == {NaN, Fin(FALSE, 0), Fin(TRUE, 7 * One)}
GarbagePoints == [x : GarbageDoubles, y : GarbageDoubles]

NoCall ==
    [op |-> "none", args |-> <<>>, done |-> TRUE, ret |-> NaN, edom |-> FALSE,
     before |-> ""]
NoThreads == <<>>
NoMain == [pc |-> "none"]

\* What stdout may hold when a library function is called.
PriorOut == {"", "Point p1: ", "Sum of p1 and p2: Point(x: 2.00, y: 6.50)\n"}

\* A call about to be made: ret is the value returned, edom whether sqrt
\* reported a domain error, before what stdout held when displayPoint began.
Pending(op, args) ==
    [op |-> op, args |-> args, done |-> FALSE, ret |-> NaN, edom |-> FALSE,
     before |-> ""]

Calls ==
    {Pending("createPoint", <<x, y>>) : x \in Coords, y \in Coords}
        \cup {Pending("displayPoint", <<p>>) : p \in Points}
        \cup {Pending("distanceToOrigin", <<p>>) : p \in Points}
        \cup {Pending("addPoints", <<p1, p2>>) : p1 \in Points, p2 \in Points}

(***************************************************************************)
(* Spec: a caller makes one library call, on any arguments and with        *)
(* anything already written to stdout; a step is one whole call.           *)
(***************************************************************************)
Init ==
    /\ call \in Calls
    /\ out \in PriorOut
    /\ th = NoThreads
    /\ main = NoMain

CreatePoint ==
    /\ call.op = "createPoint" /\ ~call.done
    /\ \E g \in GarbagePoints :
        call' = [call EXCEPT !.done = TRUE,
                             !.ret = createPoint(call.args[1], call.args[2], g)]
    /\ UNCHANGED <<out, th, main>>

DisplayPoint ==
    /\ call.op = "displayPoint" /\ ~call.done
    /\ \E nanX \in NanTexts, nanY \in NanTexts :
        out' = out \o displayPoint(call.args[1], nanX, nanY)
    /\ call' = [call EXCEPT !.done = TRUE, !.before = out]
    /\ UNCHANGED <<th, main>>

DistanceToOrigin ==
    /\ call.op = "distanceToOrigin" /\ ~call.done
    /\ call' = [call EXCEPT !.done = TRUE,
                            !.ret = distanceToOrigin(call.args[1]),
                            !.edom = sqrtDomainError(radicand(call.args[1]))]
    /\ UNCHANGED <<out, th, main>>

AddPoints ==
    /\ call.op = "addPoints" /\ ~call.done
    /\ \E g \in GarbagePoints :
        call' = [call EXCEPT !.done = TRUE,
                             !.ret = addPoints(call.args[1], call.args[2], g)]
    /\ UNCHANGED <<out, th, main>>

Next == CreatePoint \/ DisplayPoint \/ DistanceToOrigin \/ AddPoints

Spec == Init /\ [][Next]_vars

(***************************************************************************)
(* SpecThreads: threads call the four functions concurrently, with no      *)
(* synchronisation.  Each thread holds the Points it has created so far    *)
(* (held) and passes them by value.  A call takes three steps: the entry,  *)
(* which copies the arguments into the parameters and allocates the        *)
(* function's local (indeterminate); the statements before the return      *)
(* (displayPoint's printf locks stdout and writes its text at once); and   *)
(* the return, which reads the local and hands the value to the caller.    *)
(***************************************************************************)
Threads == {"t1", "t2"}
MaxCalls == 3

ThreadCoords == {Num(3 * One), Num(-One)}
ThreadGarbage == {Point(NaN, Fin(TRUE, 7 * One)), Point(Fin(FALSE, 0), NaN)}
Dead == [dead |-> TRUE]

\* The storage of thread t's locals, were they static: one for all threads.
LocalsStatic(t) == "t1"

\* The storage of thread t's locals: automatic, one per activation.
LocalsOf(t) == t

Idle == [pc |-> "idle", op |-> "none", args |-> <<>>, params |-> <<>>,
         ret |-> NaN, wrote |-> "", held |-> <<>>]

InitThreads ==
    /\ call = NoCall
    /\ out = ""
    /\ th = [c |-> [t \in Threads |-> Idle],
             loc |-> [t \in Threads |-> Dead],
             calls |-> 0]
    /\ main = NoMain

Enter(t, op, args, g) ==
    /\ th.c[t].pc = "idle"
    /\ th.calls < MaxCalls
    /\ th' = [th EXCEPT !.c[t].pc = "body", !.c[t].op = op,
                        !.c[t].args = args, !.c[t].params = args,
                        !.c[t].ret = NaN, !.c[t].wrote = "",
                        !.loc[LocalsOf(t)] = g, !.calls = @ + 1]
    /\ UNCHANGED <<call, out, main>>

In(t, op, pc) == th.c[t].op = op /\ th.c[t].pc = pc

Leave(t, op, v) ==
    /\ In(t, op, "return")
    /\ th' = [th EXCEPT !.c[t].pc = "idle", !.c[t].ret = v,
                        !.c[t].params = <<>>,
                        !.c[t].held = IF op \in {"createPoint", "addPoints"}
                                      THEN Append(@, v) ELSE @,
                        !.loc[LocalsOf(t)] = Dead]
    /\ UNCHANGED <<call, out, main>>

ThreadCreatePoint(t) ==
    \/ \E x \in ThreadCoords, y \in ThreadCoords, g \in ThreadGarbage :
           Enter(t, "createPoint", <<x, y>>, g)
    \/ /\ In(t, "createPoint", "body")
       /\ th.loc[LocalsOf(t)] # Dead
       /\ th' = [th EXCEPT !.c[t].pc = "return",
                           !.loc[LocalsOf(t)] =
                               createPoint(th.c[t].params[1], th.c[t].params[2], @)]
       /\ UNCHANGED <<call, out, main>>
    \/ Leave(t, "createPoint", th.loc[LocalsOf(t)])

ThreadDisplayPoint(t) ==
    \/ \E i \in DOMAIN th.c[t].held :
           Enter(t, "displayPoint", <<th.c[t].held[i]>>, th.loc[LocalsOf(t)])
    \/ /\ In(t, "displayPoint", "body")
       /\ \E nanX \in NanTexts, nanY \in NanTexts :
           LET text == displayPoint(th.c[t].params[1], nanX, nanY)
           IN  /\ out' = out \o text
               /\ th' = [th EXCEPT !.c[t].pc = "return", !.c[t].wrote = text]
       /\ UNCHANGED <<call, main>>
    \/ /\ In(t, "displayPoint", "return")
       /\ th' = [th EXCEPT !.c[t].pc = "idle", !.c[t].params = <<>>]
       /\ UNCHANGED <<call, out, main>>

\* distanceToOrigin with a slip: a debugging printf left in.
ThreadDistanceTraced(t) ==
    \/ \E i \in DOMAIN th.c[t].held :
           Enter(t, "distanceToOrigin", <<th.c[t].held[i]>>, th.loc[LocalsOf(t)])
    \/ /\ In(t, "distanceToOrigin", "body")
       /\ th' = [th EXCEPT !.c[t].pc = "return",
                           !.loc[LocalsOf(t)] = deltas(th.c[t].params[1])]
       /\ out' = out \o "deltaX, deltaY\n"
       /\ UNCHANGED <<call, main>>
    \/ /\ th.loc[LocalsOf(t)] # Dead
       /\ Leave(t, "distanceToOrigin", fsqrt(sumOfSquares(th.loc[LocalsOf(t)])))

ThreadDistanceToOrigin(t) ==
    \/ \E i \in DOMAIN th.c[t].held :
           Enter(t, "distanceToOrigin", <<th.c[t].held[i]>>, th.loc[LocalsOf(t)])
    \/ /\ In(t, "distanceToOrigin", "body")
       /\ th' = [th EXCEPT !.c[t].pc = "return",
                           !.loc[LocalsOf(t)] = deltas(th.c[t].params[1])]
       /\ UNCHANGED <<call, out, main>>
    \/ /\ th.loc[LocalsOf(t)] # Dead
       /\ Leave(t, "distanceToOrigin", fsqrt(sumOfSquares(th.loc[LocalsOf(t)])))

ThreadAddPoints(t) ==
    \/ \E i \in DOMAIN th.c[t].held, j \in DOMAIN th.c[t].held, g \in ThreadGarbage :
           Enter(t, "addPoints", <<th.c[t].held[i], th.c[t].held[j]>>, g)
    \/ /\ In(t, "addPoints", "body")
       /\ th.loc[LocalsOf(t)] # Dead
       /\ th' = [th EXCEPT !.c[t].pc = "return",
                           !.loc[LocalsOf(t)] =
                               addPoints(th.c[t].params[1], th.c[t].params[2], @)]
       /\ UNCHANGED <<call, out, main>>
    \/ Leave(t, "addPoints", th.loc[LocalsOf(t)])

NextThreads ==
    \E t \in Threads :
        \/ ThreadCreatePoint(t)
        \/ ThreadDisplayPoint(t)
        \/ ThreadDistanceToOrigin(t)
        \/ ThreadAddPoints(t)

SpecThreads == InitThreads /\ [][NextThreads]_vars

(***************************************************************************)
(* SpecMain: main() of main_geometry.c, a step per statement.  Its four    *)
(* locals are declared without initialiser and start indeterminate.        *)
(* SpecMainFair adds that the process keeps running while it can.          *)
(***************************************************************************)
MainGarbage == ThreadGarbage \cup {Point(Num(3 * One), Num(4 * One))}

InitMain ==
    /\ call = NoCall
    /\ out = ""
    /\ th = NoThreads
    /\ \E p1 \in MainGarbage, p2 \in MainGarbage, sumPoint \in MainGarbage,
          dist \in GarbageDoubles :
           main = [pc |-> "L39", p1 |-> p1, p2 |-> p2, sumPoint |-> sumPoint,
                   dist |-> dist, exit |-> -1]

\* main is at statement pc and goes on to statement next with its locals m.
MainStep(pc, next, m) ==
    /\ main.pc = pc
    /\ main' = [m EXCEPT !.pc = next]
    /\ UNCHANGED <<call, th>>

\* p1 = createPoint(3.0, 4.0);
MainCreateP1 ==
    /\ \E g \in GarbagePoints :
           MainStep("L39", "L40",
                    [main EXCEPT !.p1 = createPoint(Num(3 * One), Num(4 * One), g)])
    /\ UNCHANGED out

\* p2 = createPoint(-1.0, 2.5);
MainCreateP2 ==
    /\ \E g \in GarbagePoints :
           MainStep("L40", "L42",
                    [main EXCEPT !.p2 = createPoint(Num(-One), Num(2 * One + Half), g)])
    /\ UNCHANGED out

\* printf("Point p1: ");
MainLabelP1 ==
    /\ MainStep("L42", "L43", main)
    /\ out' = out \o "Point p1: "

\* displayPoint(p1);
MainDisplayP1 ==
    /\ MainStep("L43", "L45", main)
    /\ \E nanX \in NanTexts, nanY \in NanTexts :
           out' = out \o displayPoint(main.p1, nanX, nanY)

\* printf("Point p2: ");
MainLabelP2 ==
    /\ MainStep("L45", "L46", main)
    /\ out' = out \o "Point p2: "

\* displayPoint(p2);
MainDisplayP2 ==
    /\ MainStep("L46", "L49", main)
    /\ \E nanX \in NanTexts, nanY \in NanTexts :
           out' = out \o displayPoint(main.p2, nanX, nanY)

\* dist = distanceToOrigin(p1);
MainDistP1 ==
    /\ MainStep("L49", "L50", [main EXCEPT !.dist = distanceToOrigin(main.p1)])
    /\ UNCHANGED out

\* printf("Distance of p1 from origin: %.2f\n", dist);
MainPrintDistP1 ==
    /\ MainStep("L50", "L53", main)
    /\ \E nan \in NanTexts :
           out' = out \o "Distance of p1 from origin: " \o fmt2(main.dist, nan) \o "\n"

\* sumPoint = addPoints(p1, p2);
MainAddPoints ==
    /\ \E g \in GarbagePoints :
           MainStep("L53", "L54",
                    [main EXCEPT !.sumPoint = addPoints(main.p1, main.p2, g)])
    /\ UNCHANGED out

\* printf("Sum of p1 and p2: ");
MainLabelSum ==
    /\ MainStep("L54", "L55", main)
    /\ out' = out \o "Sum of p1 and p2: "

\* displayPoint(sumPoint);
MainDisplaySum ==
    /\ MainStep("L55", "L58", main)
    /\ \E nanX \in NanTexts, nanY \in NanTexts :
           out' = out \o displayPoint(main.sumPoint, nanX, nanY)

\* dist = distanceToOrigin(sumPoint), with a slip: p1 for sumPoint.
MainDistSumOfP1 ==
    /\ MainStep("L58", "L59", [main EXCEPT !.dist = distanceToOrigin(main.p1)])
    /\ UNCHANGED out

\* dist = distanceToOrigin(sumPoint);
MainDistSum ==
    /\ MainStep("L58", "L59", [main EXCEPT !.dist = distanceToOrigin(main.sumPoint)])
    /\ UNCHANGED out

\* printf("Distance of sumPoint from origin: %.2f\n", dist);
MainPrintDistSum ==
    /\ MainStep("L59", "L62", main)
    /\ \E nan \in NanTexts :
           out' = out \o "Distance of sumPoint from origin: " \o fmt2(main.dist, nan)
                      \o "\n"

\* return 0, with a slip: return 1.
MainReturnOne ==
    /\ MainStep("L62", "done", [main EXCEPT !.exit = 1])
    /\ UNCHANGED out

\* return 0;
MainReturn ==
    /\ MainStep("L62", "done", [main EXCEPT !.exit = 0])
    /\ UNCHANGED out

NextMain ==
    \/ MainCreateP1 \/ MainCreateP2
    \/ MainLabelP1 \/ MainDisplayP1
    \/ MainLabelP2 \/ MainDisplayP2
    \/ MainDistP1 \/ MainPrintDistP1
    \/ MainAddPoints
    \/ MainLabelSum \/ MainDisplaySum
    \/ MainDistSum \/ MainPrintDistSum
    \/ MainReturn

SpecMain == InitMain /\ [][NextMain]_vars

SpecMainFair == SpecMain /\ WF_vars(NextMain)

(***************************************************************************)
(* The properties of the four functions, under Spec.                       *)
(***************************************************************************)
Returned(op) == call.op = op /\ call.done

P34 == Point(Num(3 * One), Num(4 * One))
PM1 == Point(Num(-One), Num(2 * One + Half))

\* Both squares are exact, neither they nor their sum overflow, and the sum
\* is the square of a representable value.
PerfectSquareCase(p) ==
    /\ IsFin(p.x) /\ IsFin(p.y)
    /\ (p.x.m * p.x.m) % One = 0 /\ (p.y.m * p.y.m) % One = 0
    /\ p.x.m * p.x.m <= MaxMag * One /\ p.y.m * p.y.m <= MaxMag * One
    /\ p.x.m * p.x.m + p.y.m * p.y.m <= MaxMag * One
    /\ LET s == p.x.m * p.x.m + p.y.m * p.y.m
           r == ISqrt(s, 0, 2^12)
       IN  r * r = s

\* C1: distanceToOrigin(p) is sqrt(p.x*p.x + p.y*p.y), the subtraction of the
\* origin constants changing nothing; over coordinates whose sum of squares is
\* a perfect square the result r is non-negative and r*r = p.x*p.x + p.y*p.y
\* exactly; distanceToOrigin(3,4) = 5 and distanceToOrigin(0,0) = 0.
C1_DistanceIsSqrt ==
    Returned("distanceToOrigin") =>
        LET p == call.args[1]
            r == call.ret
        IN  /\ r = fsqrt(fadd(fmul(p.x, p.x), fmul(p.y, p.y)))
            /\ PerfectSquareCase(p) =>
                   /\ IsFin(r) /\ ~r.neg
                   /\ r.m * r.m = p.x.m * p.x.m + p.y.m * p.y.m
            /\ p = P34 => r = Num(5 * One)
            /\ p = Point(Num(0), Num(0)) => r = Num(0)

C1_Witness ==
    /\ Returned("distanceToOrigin")
    /\ call.args[1] = P34
    /\ PerfectSquareCase(call.args[1])
    /\ call.ret = Num(5 * One)

\* C2: addPoints(p1, p2) has x = p1.x + p2.x and y = p1.y + p2.y, each field
\* summed on its own; when a field's operands are finite and their sum does
\* not overflow it is their exact sum; (3,4) + (-1,2.5) = (2,6.5).
FieldSum(a, b, s) ==
    /\ s = fadd(a, b)
    /\ (IsFin(a) /\ IsFin(b) /\ Abs(sv(a) + sv(b)) <= MaxMag) =>
           (IsFin(s) /\ sv(s) = sv(a) + sv(b))

C2_AddFieldwise ==
    Returned("addPoints") =>
        LET p1 == call.args[1]
            p2 == call.args[2]
            r == call.ret
        IN  /\ FieldSum(p1.x, p2.x, r.x)
            /\ FieldSum(p1.y, p2.y, r.y)
            /\ (p1 = P34 /\ p2 = PM1) =>
                   r = Point(Num(2 * One), Num(6 * One + Half))

C2_Witness ==
    /\ Returned("addPoints")
    /\ call.args = <<P34, PM1>>
    /\ call.ret = Point(Num(2 * One), Num(6 * One + Half))

\* C3 as stated: for all p1 and p2, NaN included, both fields of
\* addPoints(p1, p2) compare equal (==) to those of addPoints(p2, p1).
C3_Original ==
    Returned("addPoints") =>
        \A g \in GarbagePoints :
            LET r == call.ret
                q == addPoints(call.args[2], call.args[1], g)
            IN  feq(r.x, q.x) /\ feq(r.y, q.y)

\* The sum of a and b is NaN: an operand is, or they are opposite infinities.
NaNSum(a, b) ==
    IsNaN(a) \/ IsNaN(b) \/ (IsInf(a) /\ IsInf(b) /\ a.neg # b.neg)

\* C3 amended: each field of addPoints(p1, p2) compares equal to that field
\* of addPoints(p2, p1) (and has its sign, also when zero), unless the field's
\* sum is NaN (an operand is NaN, or the operands are opposite infinities):
\* then both are NaN.
C3_Commutes ==
    Returned("addPoints") =>
        \A g \in GarbagePoints :
            LET p1 == call.args[1]
                p2 == call.args[2]
                r == call.ret
                q == addPoints(p2, p1, g)
            IN  /\ r = q
                /\ IF NaNSum(p1.x, p2.x) THEN IsNaN(r.x) /\ IsNaN(q.x)
                   ELSE feq(r.x, q.x)
                /\ IF NaNSum(p1.y, p2.y) THEN IsNaN(r.y) /\ IsNaN(q.y)
                   ELSE feq(r.y, q.y)

C3_Witness ==
    /\ Returned("addPoints")
    /\ call.args[1] # call.args[2]
    /\ IsNaN(call.ret.x)
    /\ ~IsNaN(call.ret.y)
    /\ call.args[1].x = Inf(FALSE)

\* C4: createPoint(x, y) returns the Point holding x and y themselves, for
\* every x and y (zero, negative, NaN, infinite): nothing is rejected,
\* rounded, swapped or altered, whatever newPoint held before.
C4_CreateExact ==
    Returned("createPoint") =>
        /\ call.ret = Point(call.args[1], call.args[2])
        /\ ~IsNaN(call.args[1]) => feq(call.ret.x, call.args[1])
        /\ ~IsNaN(call.args[2]) => feq(call.ret.y, call.args[2])

C4_Witness ==
    /\ Returned("createPoint")
    /\ IsNaN(call.args[1])
    /\ call.args[2] = Inf(TRUE)
    /\ call.ret = Point(NaN, Inf(TRUE))

\* C6: distanceToOrigin of a Point with a NaN coordinate is NaN; with an
\* infinite coordinate and no NaN it is +infinity; of (0,0) it is 0.0; it is
\* never negative and sqrt never reports a domain error.
C6_DistanceSpecial ==
    Returned("distanceToOrigin") =>
        LET p == call.args[1]
            r == call.ret
        IN  /\ (IsNaN(p.x) \/ IsNaN(p.y)) => IsNaN(r)
            /\ (~IsNaN(p.x) /\ ~IsNaN(p.y) /\ (IsInf(p.x) \/ IsInf(p.y))) =>
                   r = Inf(FALSE)
            /\ (IsZero(p.x) /\ IsZero(p.y)) => r = Fin(FALSE, 0)
            /\ ~fneg0(r)
            /\ ~call.edom

C6_Witness ==
    /\ Returned("distanceToOrigin")
    /\ call.args[1] = Point(Inf(TRUE), Fin(FALSE, MaxMag))
    /\ call.ret = Inf(FALSE)

\* The texts that show the double a rounded to two decimals: a sign, the
\* integer digits, a point and two digits, of a count h of hundredths no
\* further than half a hundredth from a.  An infinity or a NaN has no
\* decimals: it is shown as inf, -inf, nan or -nan.
Rendered(a) ==
    IF IsNaN(a) THEN NanTexts
    ELSE IF IsInf(a) THEN {IF a.neg THEN "-inf" ELSE "inf"}
    ELSE LET q == (a.m * 100) \div One
         IN  { (IF a.neg THEN "-" ELSE "") \o Dec(h \div 100) \o "."
                   \o Digit((h % 100) \div 10) \o Digit(h % 10) :
               h \in {k \in {q, q + 1} : 2 * Abs(a.m * 100 - k * One) <= One} }

\* C5 as stated: displayPoint(p) writes exactly Point(x: <x>, y: <y>), x
\* first and y second, and nothing else.
C5_Original ==
    Returned("displayPoint") =>
        LET p == call.args[1]
        IN  \E tx \in Rendered(p.x), ty \in Rendered(p.y) :
                out = call.before \o "Point(x: " \o tx \o ", y: " \o ty \o ")"

\* C5 amended: displayPoint(p) appends to stdout exactly Point(x: <x>, y: <y>)
\* followed by one newline, and nothing else, x first and y second, each
\* finite coordinate rounded to two decimals (an infinite or NaN coordinate
\* is written inf, -inf, nan or -nan); for (3,4) the text is
\* "Point(x: 3.00, y: 4.00)\n" and for (-1,2.5) "Point(x: -1.00, y: 2.50)\n".
C5_DisplayLine ==
    Returned("displayPoint") =>
        LET p == call.args[1]
        IN  /\ \E tx \in Rendered(p.x), ty \in Rendered(p.y) :
                   out = call.before \o "Point(x: " \o tx \o ", y: " \o ty
                             \o ")" \o "\n"
            /\ p = P34 => out = call.before \o "Point(x: 3.00, y: 4.00)\n"
            /\ p = PM1 => out = call.before \o "Point(x: -1.00, y: 2.50)\n"

C5_Witness ==
    /\ Returned("displayPoint")
    /\ call.args[1] = PM1
    /\ call.before = "Point p1: "
    /\ out = "Point p1: Point(x: -1.00, y: 2.50)\n"

(***************************************************************************)
(* The properties of concurrent callers, under SpecThreads.                *)
(***************************************************************************)
Completed(t, op) == th.c[t].op = op /\ th.c[t].pc = "idle"

C10_Step ==
    /\ out' # out => \E t \in Threads : In(t, "displayPoint", "body")
    /\ \A t \in Threads :
           LET c == th.c[t]
               d == th'.c[t]
           IN  /\ (d.pc # c.pc /\ d.op \in {"createPoint", "addPoints", "distanceToOrigin"})
                       => out' = out
               /\ c.pc # "idle" => d.args = c.args
               /\ Len(d.held) >= Len(c.held)
               /\ \A i \in DOMAIN c.held : d.held[i] = c.held[i]

\* C10, of every step: only displayPoint has a side effect, and every Point a
\* caller holds keeps its x and y.
C10_OnlyDisplayWrites == [][C10_Step]_vars

\* t1 created a Point, displayed it and then added it to itself: the text is
\* still the only output and the first Point is as created.
C10_Witness ==
    /\ Completed("t1", "addPoints")
    /\ th.c["t1"].held = <<Point(Num(3 * One), Num(-One)), Point(Num(6 * One), Num(-2 * One))>>
    /\ out = "Point(x: 3.00, y: -1.00)\n"

(***************************************************************************)
(* The properties of main, under SpecMain and SpecMainFair.                *)
(***************************************************************************)
\* C7: main always terminates and returns 0: every execution reaches the
\* final return, and none ends with another exit code.
C7_MainReturnsZero ==
    /\ <>(main.pc = "done" /\ main.exit = 0)
    /\ [](main.exit \in {-1, 0})
    /\ [](main.exit = 0 <=> main.pc = "done")

C7_Witness == main.pc = "done" /\ main.exit = 0

\* What stdout holds when main is at each statement.
OutP1 == "Point p1: Point(x: 3.00, y: 4.00)\n"
OutP2 == OutP1 \o "Point p2: Point(x: -1.00, y: 2.50)\n"
OutDist1 == OutP2 \o "Distance of p1 from origin: 5.00\n"
OutSum == OutDist1 \o "Sum of p1 and p2: Point(x: 2.00, y: 6.50)\n"
OutDist2 == OutSum \o "Distance of sumPoint from origin: 6.80\n"

OutAt(pc) ==
    CASE pc \in {"L39", "L40", "L42"} -> ""
      [] pc = "L43" -> "Point p1: "
      [] pc = "L45" -> OutP1
      [] pc = "L46" -> OutP1 \o "Point p2: "
      [] pc \in {"L49", "L50"} -> OutP2
      [] pc \in {"L53", "L54"} -> OutDist1
      [] pc = "L55" -> OutDist1 \o "Sum of p1 and p2: "
      [] pc \in {"L58", "L59"} -> OutSum
      [] pc \in {"L62", "done"} -> OutDist2

After(pcs) == main.pc \in pcs

PSum == Point(Num(2 * One), Num(6 * One + Half))

\* C9: main writes, in this order, p1 = (3,4) as Point(x: 3.00, y: 4.00),
\* p2 = (-1,2.5) as Point(x: -1.00, y: 2.50), the distance of p1 as 5.00,
\* sum = (2,6.5) as Point(x: 2.00, y: 6.50) and the distance of sum,
\* sqrt(46.25), as 6.80; the distance of p1 is 5 before the sum exists, and
\* p1 and p2 hold their values after the addition.
C9_MainOutput ==
    /\ out = OutAt(main.pc)
    /\ ~After({"L39"}) => main.p1 = P34
    /\ ~After({"L39", "L40"}) => main.p2 = PM1
    /\ After({"L50", "L53"}) => main.dist = Num(5 * One)
    /\ After({"L54", "L55", "L58", "L59", "L62", "done"}) => main.sumPoint = PSum
    /\ After({"L59", "L62", "done"}) =>
           /\ main.dist = fsqrt(Num(46 * One + One \div 4))
           /\ 2 * Abs(main.dist.m * 100 - 680 * One) <= One

C9_Witness ==
    /\ main.pc = "done"
    /\ out = OutDist2
    /\ main.p1 = P34 /\ main.p2 = PM1 /\ main.sumPoint = PSum

====
